---- MODULE Spec2Model ----
(***************************************************************************)
(* A model of src/agent.py: the question classifier, the answer extractor, *)
(* the Transport wrapper, the five strategies, the composite reasoning     *)
(* strategy and the dispatcher run_agent.                                  *)
(*                                                                         *)
(* Representation.                                                         *)
(*  - A question is a sequence of one-character strings, so that Python's  *)
(*    substring test (kw in q) and   str.lower() are computed, not assumed.  *)
(*  - A model output text is a sequence of tokens.  The token FA stands    *)
(*    for the 13 characters "Final answer:" and fa for a differently cased *)
(*    spelling of them (the regex is IGNORECASE); SP and NL are the white- *)
(*    space characters space and newline; every other token is one non-    *)
(*    whitespace character.  No proper prefix of the marker is a suffix of *)
(*    it, so occurrences of the marker never overlap and reading it as one *)
(*    token loses no match of the regex.                                   *)
(*    The backquote character, which a TLA+ string cannot hold, is BQ.     *)
(*  - Python's None is the string None for the str-or-None fields and the  *)
(*    one-element sequence NoneText for a text that is None.               *)
(***************************************************************************)
EXTENDS Integers, Sequences, FiniteSets, TLC

VARIABLES
    question,       \* run_agent's argument
    nfrags,         \* how many fragments the question was composed of (input bound)
    pc,             \* the position of run_agent
    question_type,  \* run_agent's local question_type
    resp,           \* run_agent's local resp
    cot_resp,       \* reasoning_strategy's local cot_resp
    refine_resp,    \* reasoning_strategy's local refine_resp
    ret,            \* what run_agent returned to its caller
    calls,          \* the calls that have returned, in the order they returned
    text,           \* the extractor's input
    once,           \* extract_final_answer(text)
    twice,          \* extract_final_answer(extract_final_answer(text))
    epc             \* the position of the extractor's driver

vars == <<question, nfrags, pc, question_type, resp, cot_resp, refine_resp, ret,
          calls, text, once, twice, epc>>
agentVars == <<question, nfrags, pc, question_type, resp, cot_resp, refine_resp,
               ret, calls>>
extractVars == <<text, once, twice, epc>>

-----------------------------------------------------------------------------
(* Bounds of the inputs *)

\* the longest text given to the extractor on its own, in tokens
MaxLen == 4
\* the most fragments a question given to the classifier on its own is made of
MaxFrags == 2

-----------------------------------------------------------------------------
(* Python values *)

\* the backquote character
BQ == "BQ"

None == "None"
NoneText == <<"None">>

HTTP_OK == 200
FAULT_STATUS == -1

-----------------------------------------------------------------------------
(* Keyword lists, src/agent.py:146-170 *)

PREDICTION_KEYWORDS ==
    { <<"p","r","e","d","i","c","t">>,  \* "predict"
      <<"f","o","r","e","c","a","s","t">>,  \* "forecast"
      <<"w","i","l","l"," ","h","a","p","p","e","n">>,  \* "will happen"
      <<"f","u","t","u","r","e">>,  \* "future"
      <<"i","n"," ","t","h","e"," ","y","e","a","r">>,  \* "in the year"
      <<"b","y"," ","2","0">>,  \* "by 20"
      <<"b","y"," ","2","0","2">>,  \* "by 202"
      <<"n","e","x","t"," ","d","e","c","a","d","e">>,  \* "next decade"
      <<"n","e","x","t"," ","y","e","a","r">>,  \* "next year"
      <<"n","e","x","t"," ","m","o","n","t","h">>,  \* "next month"
      <<"n","e","x","t"," ","w","e","e","k">>,  \* "next week"
      <<"n","e","x","t"," ","c","e","n","t","u","r","y">>,  \* "next century"
      <<"i","n"," ","5"," ","y","e","a","r","s">>,  \* "in 5 years"
      <<"i","n"," ","1","0"," ","y","e","a","r","s">>,  \* "in 10 years"
      <<"i","n"," ","5","0"," ","y","e","a","r","s">>,  \* "in 50 years"
      <<"i","n"," ","1","0","0"," ","y","e","a","r","s">>,  \* "in 100 years"
      <<"t","r","e","n","d","s">>,  \* "trends"
      <<"e","m","e","r","g","i","n","g">>,  \* "emerging"
      <<"d","e","v","e","l","o","p","m","e","n","t","s">>,  \* "developments"
      <<"a","d","v","a","n","c","e","m","e","n","t","s">>,  \* "advancements"
      <<"e","v","o","l","u","t","i","o","n">>,  \* "evolution"
      <<"p","r","o","j","e","c","t","i","o","n","s">>,  \* "projections"
      <<"a","n","t","i","c","i","p","a","t","e","d">>,  \* "anticipated"
      <<"e","x","p","e","c","t","e","d">>,  \* "expected"
      <<"l","i","k","e","l","y"," ","t","o">>,  \* "likely to"
      <<"c","o","u","l","d"," ","b","e">>,  \* "could be"
      <<"m","i","g","h","t"," ","b","e">> }  \* "might be"

CODING_KEYWORDS ==
    { <<"c","o","d","e">>,  \* "code"
      <<"f","u","n","c","t","i","o","n">>,  \* "function"
      <<"c","l","a","s","s">>,  \* "class"
      <<"s","c","r","i","p","t">>,  \* "script"
      <<"p","r","o","g","r","a","m">>,  \* "program"
      <<"b","u","g">>,  \* "bug"
      <<"t","r","a","c","e","b","a","c","k">>,  \* "traceback"
      <<"s","y","n","t","a","x","e","r","r","o","r">>,  \* "syntaxerror"
      <<"r","u","n","t","i","m","e","e","r","r","o","r">>,  \* "runtimeerror"
      <<"c","o","m","p","i","l","e"," ","e","r","r","o","r">>,  \* "compile error"
      <<"c","o","m","p","i","l","a","t","i","o","n"," ","e","r","r","o","r">>,  \* "compilation error"
      <<"s","t","a","c","k"," ","t","r","a","c","e">> }  \* "stack trace"

CODING_LANGUAGES ==
    { <<"p","y","t","h","o","n">>,  \* "python"
      <<"j","a","v","a">>,  \* "java"
      <<"j","a","v","a","s","c","r","i","p","t">>,  \* "javascript"
      <<"c","+","+">>,  \* "c++"
      <<"c","#">>,  \* "c#"
      <<"r","u","s","t">>,  \* "rust"
      <<"g","o">>,  \* "go"
      <<"t","y","p","e","s","c","r","i","p","t">>,  \* "typescript"
      <<"r","u","b","y">>,  \* "ruby"
      <<"p","h","p">>,  \* "php"
      <<"s","w","i","f","t">>,  \* "swift"
      <<"k","o","t","l","i","n">>,  \* "kotlin"
      <<"h","t","m","l">>,  \* "html"
      <<"c","s","s">>,  \* "css"
      <<"s","q","l">> }  \* "sql"

MATH_KEYWORDS ==
    { <<"c","a","l","c","u","l","a","t","e">>,  \* "calculate"
      <<"c","o","m","p","u","t","e">>,  \* "compute"
      <<"e","v","a","l","u","a","t","e">>,  \* "evaluate"
      <<"w","h","a","t"," ","i","s">>,  \* "what is"
      <<"f","i","n","d"," ","t","h","e"," ","v","a","l","u","e"," ","o","f">>,  \* "find the value of"
      <<"d","e","t","e","r","m","i","n","e">>,  \* "determine"
      <<"s","o","l","v","e">>,  \* "solve"
      <<"i","n","t","e","g","r","a","t","e">>,  \* "integrate"
      <<"d","i","f","f","e","r","e","n","t","i","a","t","e">>,  \* "differentiate"
      <<"s","u","m"," ","o","f">>,  \* "sum of"
      <<"p","r","o","d","u","c","t"," ","o","f">>,  \* "product of"
      <<"p","l","u","s">>,  \* "plus"
      <<"m","i","n","u","s">>,  \* "minus"
      <<"t","i","m","e","s">>,  \* "times"
      <<"d","i","v","i","d","e","d"," ","b","y">>,  \* "divided by"
      <<"e","q","u","a","t","i","o","n">>,  \* "equation"
      <<"f","o","r","m","u","l","a">>,  \* "formula"
      <<"a","l","g","e","b","r","a">>,  \* "algebra"
      <<"g","e","o","m","e","t","r","y">>,  \* "geometry"
      <<"t","r","i","g","o","n","o","m","e","t","r","y">>,  \* "trigonometry"
      <<"c","a","l","c","u","l","u","s">> }  \* "calculus"

-----------------------------------------------------------------------------
(* Inputs *)

Q_Capital == <<"W","h","a","t"," ","i","s"," ","t","h","e"," ","c","a","p","i","t","a","l"," ","o","f"," ","F","r","a","n","c","e","?">>  \* "What is the capital of France?"
Q_Plain == <<"C","a","p","i","t","a","l"," ","o","f"," ","F","r","a","n","c","e","?">>  \* "Capital of France?"
Q_Coding == <<"F","i","x"," ","m","y"," ","P","y","t","h","o","n"," ","b","u","g">>  \* "Fix my Python bug"
Q_Both == <<"P","r","e","d","i","c","t"," ","t","h","e"," ","c","o","d","e">>  \* "Predict the code"
Q_Math == <<"S","o","l","v","e"," ","x","+","1","=","2">>  \* "Solve x+1=2"

Questions == {Q_Capital, Q_Plain, Q_Coding, Q_Both, Q_Math}

\* what the questions given to the classifier on its own are made of
Fragments ==
    { <<"P","r","e","d","i","c","t">>,  \* "Predict"
      <<"f","u","t","u","r","e">>,  \* "future"
      <<"c","o","d","e">>,  \* "code"
      <<"P","Y","T","H","O","N">>,  \* "PYTHON"
      <<BQ,BQ,BQ>>,  \* a code fence
      <<"s","o","l","v","e">>,  \* "solve"
      <<"W","h","a","t"," ","i","s">>,  \* "What is"
      <<"t","r","i","g","o","n","o","m","e","t","r","y">>,  \* "trigonometry"
      <<" ">>,  \* " "
      <<"t","h","e">>,  \* "the"
      <<"x">> }  \* "x"

-----------------------------------------------------------------------------
(* str.lower() and the substring test *)

UpperToLower ==
    ("A" :> "a") @@ ("B" :> "b") @@ ("C" :> "c") @@ ("D" :> "d") @@ ("E" :> "e") @@ ("F" :> "f") @@ ("G" :> "g") @@ ("H" :> "h") @@ ("I" :> "i") @@ ("J" :> "j") @@ ("K" :> "k") @@ ("L" :> "l") @@ ("M" :> "m") @@ ("N" :> "n") @@ ("O" :> "o") @@ ("P" :> "p") @@ ("Q" :> "q") @@ ("R" :> "r") @@ ("S" :> "s") @@ ("T" :> "t") @@ ("U" :> "u") @@ ("V" :> "v") @@ ("W" :> "w") @@ ("X" :> "x") @@ ("Y" :> "y") @@ ("Z" :> "z")

LowerChar(c) == IF c \in DOMAIN UpperToLower THEN UpperToLower[c] ELSE c

\* q.lower()
Lower(q) == [i \in 1..Len(q) |-> LowerChar(q[i])]

\* kw in q
In(kw, q) ==
    \E i \in 0..(Len(q) - Len(kw)) : SubSeq(q, i + 1, i + Len(kw)) = kw

\* any(kw in q for kw in kws)
AnyIn(kws, q) == \E kw \in kws : In(kw, q)

\* the fenced-code marker, three backquotes
FENCE == <<BQ,BQ,BQ>>

-----------------------------------------------------------------------------
(* The classifier *)

\* the classifier with the coding rule tried before the prediction rule
guess_question_type_CodingFirst(q0) ==
    LET q == Lower(q0) IN
    IF In(FENCE, q) \/ AnyIn(CODING_KEYWORDS, q) \/ AnyIn(CODING_LANGUAGES, q)
    THEN "coding"
    ELSE IF AnyIn(PREDICTION_KEYWORDS, q) THEN "future_prediction"
    ELSE IF AnyIn(MATH_KEYWORDS, q) THEN "math"
    ELSE "default"

guess_question_type(q0) ==
    LET q == Lower(q0) IN
    IF AnyIn(PREDICTION_KEYWORDS, q) THEN "future_prediction"
    ELSE IF In(FENCE, q) \/ AnyIn(CODING_KEYWORDS, q) \/ AnyIn(CODING_LANGUAGES, q)
    THEN "coding"
    ELSE IF AnyIn(MATH_KEYWORDS, q) THEN "math"
    ELSE "default"

-----------------------------------------------------------------------------
(* The answer extractor *)

FA == "FA"
fa == "fa"
SP == "SP"
NL == "NL"
Markers == {FA, fa}
Whitespace == {SP, NL}

RECURSIVE lstrip(_)
lstrip(t) == IF t # <<>> /\ Head(t) \in Whitespace THEN lstrip(Tail(t)) ELSE t

RECURSIVE rstrip(_)
rstrip(t) ==
    IF t # <<>> /\ t[Len(t)] \in Whitespace
    THEN rstrip(SubSeq(t, 1, Len(t) - 1))
    ELSE t

\* str.strip()
strip(t) == rstrip(lstrip(t))

\* the positions where re.search can match the marker
MarkerAt(t) == {i \in 1..Len(t) : t[i] \in Markers}

\* re.search matches at the leftmost position; the whitespace run after the marker
\* is consumed greedily and the group, under DOTALL, is the rest of the text
Group1(t) ==
    LET i == CHOOSE k \in MarkerAt(t) : \A j \in MarkerAt(t) : k <= j
    IN  lstrip(SubSeq(t, i + 1, Len(t)))

extract_final_answer(t) ==
    IF t = <<>> THEN <<>>
    ELSE IF MarkerAt(t) # {} THEN strip(Group1(t))
    ELSE strip(t)

-----------------------------------------------------------------------------
(* The Transport: what the endpoint can answer to one requests.post *)

\* the answer texts the endpoint gives in a run of the agent
Contents ==
    { <<>>,
      <<"x">>,
      <<SP, "x", NL>>,
      <<"x", NL, FA, SP, "y">>,
      <<fa, SP, "x", NL, FA, SP, "y">> }

\* the non-200 statuses the endpoint gives
ErrStatuses == {404, 500}

\* What resp.json() raises on a 200 body that is not JSON depends on the
\* installed requests: its JSONDecodeError is a RequestException from 2.27 on
\* and a plain ValueError before.  Both are outcomes.
JsonErrorIsRequestException == <<"requests.JSONDecodeError">>
JsonErrorIsValueError == <<"ValueError">>

\* kind    "response": requests.post returned; "fault": it raised RequestException
\* shape   of a 200 body: "content" (choices[0].message.content is a string),
\*         "null" (it is null), "absent" (message has no content), "nochoices"
\*         (choices is an empty list), "notjson" (resp.json() raises; content
\*         then names what it raises);
\*         of a non-200 body: "json" (resp.json() parses), "notjson" (it raises)
Outcomes ==
         [kind : {"response"}, status : {HTTP_OK}, shape : {"content"}, content : Contents]
    \cup [kind : {"response"}, status : {HTTP_OK}, shape : {"null", "absent", "nochoices"},
          content : {NoneText}]
    \cup [kind : {"response"}, status : {HTTP_OK}, shape : {"notjson"},
          content : {JsonErrorIsRequestException, JsonErrorIsValueError}]
    \cup [kind : {"response"}, status : ErrStatuses, shape : {"json", "notjson"},
          content : {NoneText}]
    \cup [kind : {"fault"}, status : {0}, shape : {"none"}, content : {NoneText}]

NoOutcome == [kind |-> "none", status |-> 0, shape |-> "none", content |-> NoneText]

\* str() of what the endpoint or requests reported
ErrJson == "str(resp.json())"
ErrRaw == "resp.text"
ErrFault == "str(RequestException)"
\* str() of the exceptions Python raises in the post-processing
AttributeError == "'NoneType' object has no attribute 'strip'"
IndexError == "list index out of range"
ValueError == "Expecting value: line 1 column 1 (char 0)"
ErrDecode == "str(JSONDecodeError)"

CallResult(ok, t, raw, status, error, headers) ==
    [ok |-> ok, text |-> t, raw |-> raw, status |-> status, error |-> error,
     headers |-> headers]

NoResult == CallResult(FALSE, NoneText, None, 0, None, None)

\* data.get("choices", [{}])[0].get("message", {}).get("content", "")
ContentOf(o) ==
    CASE o.shape = "content" -> o.content
      [] o.shape = "null"    -> NoneText
      [] o.shape = "absent"  -> <<>>

\* the non-200 branch with the error text dropped
call_model_chat_completions_NoError(o) ==
    IF o.kind = "fault"
    THEN [raised |-> FALSE, exc |-> None,
          res |-> CallResult(FALSE, NoneText, None, FAULT_STATUS, ErrFault, "{}")]
    ELSE IF o.status = HTTP_OK
    THEN IF o.shape = "nochoices"
         THEN [raised |-> TRUE, exc |-> IndexError, res |-> NoResult]
         ELSE IF o.shape = "notjson" /\ o.content = JsonErrorIsValueError
         THEN [raised |-> TRUE, exc |-> ValueError, res |-> NoResult]
         ELSE IF o.shape = "notjson"
         THEN [raised |-> FALSE, exc |-> None,
               res |-> CallResult(FALSE, NoneText, None, FAULT_STATUS, ErrDecode, "{}")]
         ELSE [raised |-> FALSE, exc |-> None,
               res |-> CallResult(TRUE, ContentOf(o), "data", o.status, None, "hdrs")]
    ELSE [raised |-> FALSE, exc |-> None,
          res |-> CallResult(FALSE, NoneText, None, o.status, None, "hdrs")]

\* raised: an exception that is no RequestException left the function
call_model_chat_completions(o) ==
    IF o.kind = "fault"
    THEN [raised |-> FALSE, exc |-> None,
          res |-> CallResult(FALSE, NoneText, None, FAULT_STATUS, ErrFault, "{}")]
    ELSE IF o.status = HTTP_OK
    THEN IF o.shape = "nochoices"
         THEN [raised |-> TRUE, exc |-> IndexError, res |-> NoResult]
         ELSE IF o.shape = "notjson" /\ o.content = JsonErrorIsValueError
         THEN [raised |-> TRUE, exc |-> ValueError, res |-> NoResult]
         ELSE IF o.shape = "notjson"
         THEN [raised |-> FALSE, exc |-> None,
               res |-> CallResult(FALSE, NoneText, None, FAULT_STATUS, ErrDecode, "{}")]
         ELSE [raised |-> FALSE, exc |-> None,
               res |-> CallResult(TRUE, ContentOf(o), "data", o.status, None, "hdrs")]
    ELSE [raised |-> FALSE, exc |-> None,
          res |-> CallResult(FALSE, NoneText, None, o.status,
                             IF o.shape = "json" THEN ErrJson ELSE ErrRaw, "hdrs")]

-----------------------------------------------------------------------------
(* The strategies.  Each returns the Call Result and, in exc, the exception  *)
(* its except clause caught (None when it caught none).                      *)

_error_response(e) ==
    CallResult(FALSE, <<>>, None, FAULT_STATUS, "Error calling model: " \o e, "{}")

\* resp["text"] = extract_final_answer(resp.get("text" or "").strip()), or
\* without the extractor in coding and prediction, inside the strategy's try.
\* The key looked up is "text", so a text that is None reaches .strip() and
\* raises AttributeError.
PostProcess(cm, extract) ==
    IF cm.raised
    THEN [result |-> _error_response(cm.exc), exc |-> cm.exc]
    ELSE IF cm.res.text = NoneText
    THEN [result |-> _error_response(AttributeError), exc |-> AttributeError]
    ELSE [result |-> [cm.res EXCEPT !.text =
                        IF extract THEN extract_final_answer(strip(@)) ELSE strip(@)],
          exc |-> None]

direct(q, o) == PostProcess(call_model_chat_completions(o), TRUE)

chain_of_thought(q, o) == PostProcess(call_model_chat_completions(o), TRUE)

self_refine(q, initial_answer, o) == PostProcess(call_model_chat_completions(o), TRUE)

coding(q, o) == PostProcess(call_model_chat_completions(o), FALSE)

prediction(q, o) == PostProcess(call_model_chat_completions(o), FALSE)

-----------------------------------------------------------------------------
(* The dispatcher and the composite strategy, one action per call they make *)

strategy_map ==
    [t \in {"coding", "future_prediction", "math", "default"} |->
        CASE t = "coding"            -> "coding"
          [] t = "future_prediction" -> "prediction"
          [] t = "math"              -> "reasoning_strategy"
          [] t = "default"           -> "direct"]

\* strategy_map.get(question_type, strategy_map["default"])
Strategy(t) ==
    IF t \in DOMAIN strategy_map THEN strategy_map[t] ELSE strategy_map["default"]

\* the call sites
SiteStrategy == "run_agent: resp = strategy(question)"
SiteFallback == "run_agent: resp = direct(question)"
SiteCoT == "reasoning_strategy: chain_of_thought(question)"
SiteCoTFailed == "reasoning_strategy: return direct(question)"
SiteRefine == "reasoning_strategy: self_refine(question, cot_resp.text)"

\* a call that has returned: which function, from which call site, with which
\* arguments, what the Transport answered, what the strategy caught, the result
Event(fn, site, args, o, exc, result) ==
    [fn |-> fn, site |-> site, args |-> args, outcome |-> o, exc |-> exc,
     result |-> result]

Idle ==
    /\ question = <<>>
    /\ nfrags = 0
    /\ pc = "idle"
    /\ question_type = None
    /\ resp = NoResult
    /\ cot_resp = NoResult
    /\ refine_resp = NoResult
    /\ ret = NoneText
    /\ calls = <<>>

ExtractIdle ==
    /\ text = <<>>
    /\ once = NoneText
    /\ twice = NoneText
    /\ epc = "idle"

Init ==
    /\ question \in Questions
    /\ nfrags = 0
    /\ pc = "start"
    /\ question_type = None
    /\ resp = NoResult
    /\ cot_resp = NoResult
    /\ refine_resp = NoResult
    /\ ret = NoneText
    /\ calls = <<>>
    /\ ExtractIdle

\* question_type = guess_question_type(question)
Classify ==
    /\ pc = "start"
    /\ question_type' = guess_question_type(question)
    /\ pc' = "dispatch"
    /\ UNCHANGED <<question, nfrags, resp, cot_resp, refine_resp, ret, calls>>
    /\ UNCHANGED extractVars

\* resp = strategy(question), the strategy being coding
InvokeCoding ==
    /\ pc = "dispatch"
    /\ Strategy(question_type) = "coding"
    /\ \E o \in Outcomes :
          LET r == coding(question, o) IN
          /\ resp' = r.result
          /\ calls' = Append(calls, Event("coding", SiteStrategy, <<question>>, o,
                                          r.exc, r.result))
    /\ pc' = "check"
    /\ UNCHANGED <<question, nfrags, question_type, cot_resp, refine_resp, ret>>
    /\ UNCHANGED extractVars

\* resp = strategy(question), the strategy being prediction
InvokePrediction ==
    /\ pc = "dispatch"
    /\ Strategy(question_type) = "prediction"
    /\ \E o \in Outcomes :
          LET r == prediction(question, o) IN
          /\ resp' = r.result
          /\ calls' = Append(calls, Event("prediction", SiteStrategy, <<question>>, o,
                                          r.exc, r.result))
    /\ pc' = "check"
    /\ UNCHANGED <<question, nfrags, question_type, cot_resp, refine_resp, ret>>
    /\ UNCHANGED extractVars

\* resp = strategy(question), the strategy being direct
InvokeDirect ==
    /\ pc = "dispatch"
    /\ Strategy(question_type) = "direct"
    /\ \E o \in Outcomes :
          LET r == direct(question, o) IN
          /\ resp' = r.result
          /\ calls' = Append(calls, Event("direct", SiteStrategy, <<question>>, o,
                                          r.exc, r.result))
    /\ pc' = "check"
    /\ UNCHANGED <<question, nfrags, question_type, cot_resp, refine_resp, ret>>
    /\ UNCHANGED extractVars

\* resp = strategy(question), the strategy being reasoning_strategy: it runs to
\* cot_resp = chain_of_thought(question) and the test of cot_resp's ok
ReasoningCoT ==
    /\ pc = "dispatch"
    /\ Strategy(question_type) = "reasoning_strategy"
    /\ \E o \in Outcomes :
          LET r == chain_of_thought(question, o) IN
          /\ cot_resp' = r.result
          /\ calls' = Append(calls, Event("chain_of_thought", SiteCoT, <<question>>, o,
                                          r.exc, r.result))
          /\ pc' = IF r.result.ok THEN "cot_ok" ELSE "cot_failed"
    /\ UNCHANGED <<question, nfrags, question_type, resp, refine_resp, ret>>
    /\ UNCHANGED extractVars

\* reasoning_strategy handing back the failed chain-of-thought result instead of
\* direct's
ReasoningDirect_ReturnsCoT ==
    /\ pc = "cot_failed"
    /\ \E o \in Outcomes :
          LET r == direct(question, o) IN
          /\ resp' = cot_resp
          /\ calls' = calls \o
                <<Event("direct", SiteCoTFailed, <<question>>, o, r.exc, r.result),
                  Event("reasoning_strategy", SiteStrategy, <<question>>, NoOutcome,
                        None, cot_resp)>>
    /\ pc' = "check"
    /\ UNCHANGED <<question, nfrags, question_type, cot_resp, refine_resp, ret>>
    /\ UNCHANGED extractVars

\* return direct(question), and run_agent's resp is bound to what was returned
ReasoningDirect ==
    /\ pc = "cot_failed"
    /\ \E o \in Outcomes :
          LET r == direct(question, o) IN
          /\ resp' = r.result
          /\ calls' = calls \o
                <<Event("direct", SiteCoTFailed, <<question>>, o, r.exc, r.result),
                  Event("reasoning_strategy", SiteStrategy, <<question>>, NoOutcome,
                        None, r.result)>>
    /\ pc' = "check"
    /\ UNCHANGED <<question, nfrags, question_type, cot_resp, refine_resp, ret>>
    /\ UNCHANGED extractVars

\* reasoning_strategy handing back self_refine's result whatever its ok
ReasoningRefine_ReturnsRefine ==
    /\ pc = "cot_ok"
    /\ \E o \in Outcomes :
          LET r == self_refine(question, cot_resp.text, o) IN
          /\ refine_resp' = r.result
          /\ resp' = r.result
          /\ calls' = calls \o
                <<Event("self_refine", SiteRefine, <<question, cot_resp.text>>, o,
                        r.exc, r.result),
                  Event("reasoning_strategy", SiteStrategy, <<question>>, NoOutcome,
                        None, r.result)>>
    /\ pc' = "check"
    /\ UNCHANGED <<question, nfrags, question_type, cot_resp, ret>>
    /\ UNCHANGED extractVars

\* refine_resp = self_refine(question, cot_resp.get("text", "")) and the return
\* that follows.  self_refine catches every Exception itself, so the except
\* clause around this call is never entered.
ReasoningRefine ==
    /\ pc = "cot_ok"
    /\ \E o \in Outcomes :
          LET r == self_refine(question, cot_resp.text, o)
              returned == IF r.result.ok THEN r.result ELSE cot_resp
          IN
          /\ refine_resp' = r.result
          /\ resp' = returned
          /\ calls' = calls \o
                <<Event("self_refine", SiteRefine, <<question, cot_resp.text>>, o,
                        r.exc, r.result),
                  Event("reasoning_strategy", SiteStrategy, <<question>>, NoOutcome,
                        None, returned)>>
    /\ pc' = "check"
    /\ UNCHANGED <<question, nfrags, question_type, cot_resp, ret>>
    /\ UNCHANGED extractVars

\* the fallback taken whatever resp's ok
Fallback_Unconditional ==
    /\ pc = "check"
    /\ \E o \in Outcomes :
          LET r == direct(question, o) IN
          /\ resp' = r.result
          /\ calls' = Append(calls, Event("direct", SiteFallback, <<question>>, o,
                                          r.exc, r.result))
    /\ pc' = "return"
    /\ UNCHANGED <<question, nfrags, question_type, cot_resp, refine_resp, ret>>
    /\ UNCHANGED extractVars

\* the fallback as a loop: resp is tested again after direct returns
Fallback_Retry ==
    /\ pc = "check"
    /\ ~resp.ok
    /\ \E o \in Outcomes :
          LET r == direct(question, o) IN
          /\ resp' = r.result
          /\ calls' = Append(calls, Event("direct", SiteFallback, <<question>>, o,
                                          r.exc, r.result))
    /\ pc' = "check"
    /\ UNCHANGED <<question, nfrags, question_type, cot_resp, refine_resp, ret>>
    /\ UNCHANGED extractVars

\* if not resp.get("ok", False): resp = direct(question)
Fallback ==
    /\ pc = "check"
    /\ ~resp.ok
    /\ \E o \in Outcomes :
          LET r == direct(question, o) IN
          /\ resp' = r.result
          /\ calls' = Append(calls, Event("direct", SiteFallback, <<question>>, o,
                                          r.exc, r.result))
    /\ pc' = "return"
    /\ UNCHANGED <<question, nfrags, question_type, cot_resp, refine_resp, ret>>
    /\ UNCHANGED extractVars

\* return resp.get("text", "")
Return ==
    /\ \/ pc = "check" /\ resp.ok
       \/ pc = "return"
    /\ ret' = resp.text
    /\ pc' = "done"
    /\ UNCHANGED <<question, nfrags, question_type, resp, cot_resp, refine_resp, calls>>
    /\ UNCHANGED extractVars

Next ==
    \/ Classify
    \/ InvokeCoding
    \/ InvokePrediction
    \/ InvokeDirect
    \/ ReasoningCoT
    \/ ReasoningDirect
    \/ ReasoningRefine
    \/ Fallback
    \/ Return

Spec == Init /\ [][Next]_vars

-----------------------------------------------------------------------------
(* The classifier on its own, over the questions made of up to MaxFrags      *)
(* fragments                                                                 *)

InitClassify ==
    /\ question = <<>>
    /\ nfrags = 0
    /\ pc = "start"
    /\ question_type = None
    /\ resp = NoResult
    /\ cot_resp = NoResult
    /\ refine_resp = NoResult
    /\ ret = NoneText
    /\ calls = <<>>
    /\ ExtractIdle

AppendFragment ==
    /\ pc = "start"
    /\ nfrags < MaxFrags
    /\ \E f \in Fragments : question' = question \o f
    /\ nfrags' = nfrags + 1
    /\ UNCHANGED <<pc, question_type, resp, cot_resp, refine_resp, ret, calls>>
    /\ UNCHANGED extractVars

NextClassify == AppendFragment \/ Classify

SpecClassify == InitClassify /\ [][NextClassify]_vars

-----------------------------------------------------------------------------
(* The extractor on its own, over the texts of up to MaxLen tokens *)

Tokens == {FA, fa, SP, NL, "x"}

Texts == UNION {[1..n -> Tokens] : n \in 0..MaxLen}

InitExtract ==
    /\ Idle
    /\ text \in Texts
    /\ once = NoneText
    /\ twice = NoneText
    /\ epc = "input"

ExtractOnce ==
    /\ epc = "input"
    /\ once' = extract_final_answer(text)
    /\ epc' = "once"
    /\ UNCHANGED <<text, twice>>
    /\ UNCHANGED agentVars

ExtractTwice ==
    /\ epc = "once"
    /\ twice' = extract_final_answer(once)
    /\ epc' = "twice"
    /\ UNCHANGED <<text, once>>
    /\ UNCHANGED agentVars

NextExtract == ExtractOnce \/ ExtractTwice

SpecExtract == InitExtract /\ [][NextExtract]_vars

-----------------------------------------------------------------------------
(* Properties *)

\* the calls made from a call site, as positions in calls
EventsAt(site) == {i \in DOMAIN calls : calls[i].site = site}

StrategyNames == {"direct", "chain_of_thought", "self_refine", "coding", "prediction"}

\* the calls of the strategies that call the Transport
StrategyEvents == {i \in DOMAIN calls : calls[i].fn \in StrategyNames}

\* the returns of reasoning_strategy
ReasoningEvents == {i \in DOMAIN calls : calls[i].fn = "reasoning_strategy"}

\* the calls of direct made after an earlier call of the run returned ok = false
RecoveryDirect ==
    {i \in DOMAIN calls :
        /\ calls[i].fn = "direct"
        /\ \E j \in 1..(i - 1) : ~calls[j].result.ok}

\* C1: run_agent invokes the selected strategy exactly once; if its result has
\* ok = false it invokes direct exactly once more, as the last call of the run,
\* and returns that result's text whether or not it succeeded; if its result has
\* ok = true it makes no fallback call and returns that result's text.
C1_OneStrategyCallOneFallback ==
    /\ Cardinality(EventsAt(SiteStrategy)) <= 1
    /\ Cardinality(EventsAt(SiteFallback)) <= 1
    /\ pc = "done" =>
          /\ Cardinality(EventsAt(SiteStrategy)) = 1
          /\ \A i \in EventsAt(SiteStrategy) :
                /\ calls[i].fn = strategy_map[question_type]
                /\ calls[i].args = <<question>>
                /\ IF calls[i].result.ok
                   THEN /\ EventsAt(SiteFallback) = {}
                        /\ ret = calls[i].result.text
                   ELSE /\ EventsAt(SiteFallback) = {Len(calls)}
                        /\ i < Len(calls)
                        /\ calls[Len(calls)].fn = "direct"
                        /\ calls[Len(calls)].args = <<question>>
                        /\ ret = calls[Len(calls)].result.text

\* C1 witness: a run has ended in which the selected strategy and the fallback
\* both failed
C1_Witness ==
    /\ pc = "done"
    /\ EventsAt(SiteFallback) # {}
    /\ ~resp.ok
    /\ \E i \in EventsAt(SiteStrategy) : ~calls[i].result.ok

\* the values run_agent returns from a run whose final Call Result has ok = true
SuccessReturns ==
    {r.text : r \in {x \in    {direct(question, o).result : o \in Outcomes}
                         \cup {coding(question, o).result : o \in Outcomes}
                         \cup {prediction(question, o).result : o \in Outcomes} : x.ok}}

\* C2: what run_agent returns from a run in which the selected strategy and the
\* fallback both failed differs from everything it returns from a successful
\* run, a success with an empty answer text included.
C2_FailureFlagged ==
    (pc = "done" /\ ~resp.ok) => ret \notin SuccessReturns

\* C3: direct is invoked as a recovery, after an earlier call of the same run
\* returned ok = false, at most once per run.
C3_SingleRecovery == Cardinality(RecoveryDirect) <= 1

\* C3, amended: direct is invoked as a recovery at most once by the dispatcher
\* and at most once by reasoning_strategy, so at most twice per run; twice only
\* for a question classified math whose chain-of-thought call and whose direct
\* call inside reasoning_strategy both returned ok = false.
C3_OneRecoveryPerLevel ==
    /\ RecoveryDirect \subseteq EventsAt(SiteFallback) \cup EventsAt(SiteCoTFailed)
    /\ Cardinality(RecoveryDirect \cap EventsAt(SiteFallback)) <= 1
    /\ Cardinality(RecoveryDirect \cap EventsAt(SiteCoTFailed)) <= 1
    /\ Cardinality(RecoveryDirect) = 2 =>
          /\ question_type = "math"
          /\ \A i \in EventsAt(SiteCoT) \cup EventsAt(SiteCoTFailed) : ~calls[i].result.ok

\* C3 witness: direct has been invoked as a recovery twice in one run
C3_Witness == Cardinality(RecoveryDirect) = 2

\* C4: when chain_of_thought returned ok = false, self_refine is never invoked
\* and what reasoning_strategy returns is the result of its call of direct on
\* the same question.
C4_CoTFailedReturnsDirect ==
    (\E c \in EventsAt(SiteCoT) : ~calls[c].result.ok) =>
        /\ EventsAt(SiteRefine) = {}
        /\ \A i \in ReasoningEvents :
              /\ Cardinality(EventsAt(SiteCoTFailed)) = 1
              /\ \A j \in EventsAt(SiteCoTFailed) :
                    /\ j < i
                    /\ calls[j].fn = "direct"
                    /\ calls[j].args = <<question>>
                    /\ calls[i].result = calls[j].result

\* C4 witness: reasoning_strategy has returned after chain_of_thought failed and
\* direct succeeded
C4_Witness ==
    /\ \E c \in EventsAt(SiteCoT) : ~calls[c].result.ok
    /\ \E i \in ReasoningEvents : calls[i].result.ok

\* C5: when chain_of_thought returned ok = true, self_refine is invoked once,
\* with the question and the chain-of-thought answer text; reasoning_strategy
\* returns self_refine's result when that has ok = true and the chain-of-thought
\* result otherwise, so what it returns has ok = true.
C5_CoTSucceededNeverDiscarded ==
    \A c \in EventsAt(SiteCoT) :
        calls[c].result.ok =>
            /\ EventsAt(SiteCoTFailed) = {}
            /\ Cardinality(EventsAt(SiteRefine)) <= 1
            /\ \A i \in ReasoningEvents :
                  /\ Cardinality(EventsAt(SiteRefine)) = 1
                  /\ \A j \in EventsAt(SiteRefine) :
                        /\ c < j /\ j < i
                        /\ calls[j].fn = "self_refine"
                        /\ calls[j].args = <<question, calls[c].result.text>>
                        /\ calls[i].result =
                              IF calls[j].result.ok THEN calls[j].result
                              ELSE calls[c].result
                  /\ calls[i].result.ok

\* C5 witness: reasoning_strategy has returned after chain_of_thought succeeded
\* and self_refine failed
C5_Witness ==
    /\ \E c \in EventsAt(SiteCoT) : calls[c].result.ok
    /\ \E j \in EventsAt(SiteRefine) : ~calls[j].result.ok
    /\ ReasoningEvents # {}

\* C6: extract_final_answer(extract_final_answer(t)) = extract_final_answer(t)
\* for every text t.
C6_Idempotent == epc = "twice" => twice = once

\* the rules of the classifier, each read off the lower-cased question
MatchesPrediction(q) == \E kw \in PREDICTION_KEYWORDS : In(kw, Lower(q))
MatchesCoding(q) ==
    \/ In(<<BQ, BQ, BQ>>, Lower(q))
    \/ \E kw \in CODING_KEYWORDS \cup CODING_LANGUAGES : In(kw, Lower(q))
MatchesMath(q) == \E kw \in MATH_KEYWORDS : In(kw, Lower(q))

\* C7: the label is that of the first rule that matches, in the order
\* prediction, coding, math, default.
C7_FirstMatchingRule ==
    pc = "dispatch" =>
        /\ MatchesPrediction(question) => question_type = "future_prediction"
        /\ (~MatchesPrediction(question) /\ MatchesCoding(question)) =>
              question_type = "coding"
        /\ (~MatchesPrediction(question) /\ ~MatchesCoding(question)
              /\ MatchesMath(question)) => question_type = "math"
        /\ (~MatchesPrediction(question) /\ ~MatchesCoding(question)
              /\ ~MatchesMath(question)) => question_type = "default"

\* C7 witness: a question with a prediction keyword and a coding keyword has
\* been classified
C7_Witness ==
    /\ pc = "dispatch"
    /\ MatchesPrediction(question)
    /\ MatchesCoding(question)
    /\ question_type = "future_prediction"

\* C8: "What is the capital of France?" is classified default and the strategy
\* run_agent invokes for it is direct.
C8_CapitalIsDefault ==
    question = Q_Capital =>
        /\ pc # "start" => question_type = "default"
        /\ calls # <<>> => calls[1].fn = "direct" /\ calls[1].site = SiteStrategy

\* C9: in every Call Result of the Transport wrapper and of the strategies, ok
\* is true exactly when the status is 200 and the post-processing of the text
\* raised nothing, and error is not None exactly when ok is false.
C9_CallResultInvariant ==
    /\ \A i \in StrategyEvents :
          LET e == calls[i]
              cm == call_model_chat_completions(e.outcome)
          IN
          /\ ~cm.raised =>
                /\ cm.res.ok <=> (cm.res.status = HTTP_OK)
                /\ (cm.res.error # None) <=> ~cm.res.ok
          /\ e.result.ok <=>
                (e.outcome.kind = "response" /\ e.outcome.status = HTTP_OK /\ e.exc = None)
          /\ e.result.ok <=> (e.result.status = HTTP_OK /\ e.exc = None)
          /\ (e.result.error # None) <=> ~e.result.ok
    /\ \A i \in ReasoningEvents :
          /\ calls[i].result.ok <=> (calls[i].result.status = HTTP_OK)
          /\ (calls[i].result.error # None) <=> ~calls[i].result.ok

\* C9 witness: reasoning_strategy has returned, and in the run one strategy got
\* a 200 whose text raised in the post-processing and another got a non-200
C9_Witness ==
    /\ ReasoningEvents # {}
    /\ \E i \in StrategyEvents :
          calls[i].outcome.status = HTTP_OK /\ calls[i].exc # None /\ ~calls[i].result.ok
    /\ \E i \in StrategyEvents : calls[i].outcome.status \in ErrStatuses

\* C10: when the endpoint answers a strategy's Transport call with a non-200
\* status s, the Call Result the strategy returns has ok = false, status s and
\* the error text taken from the response body.
C10_ErrorStatusCarried ==
    \A i \in StrategyEvents :
        LET e == calls[i] IN
        (e.outcome.kind = "response" /\ e.outcome.status # HTTP_OK) =>
            /\ ~e.result.ok
            /\ e.result.status = e.outcome.status
            /\ e.result.error = IF e.outcome.shape = "json" THEN ErrJson ELSE ErrRaw

====
